---- MODULE Spec2Model ----
(***************************************************************************)
(* A model of the inventory management system of src/main.py: the product *)
(* hierarchy (Electronics, Grocery, Clothing), the Inventory collection   *)
(* manager and the JSON persistence functions save_inventory and          *)
(* load_inventory.                                                         *)
(*                                                                         *)
(* Python objects are records.  A raised exception is a result record     *)
(* whose field exc names the exception class ("None" when nothing is      *)
(* raised).  Every call of add_product in the model adds a freshly        *)
(* constructed object, so two list positions never alias one object.      *)
(***************************************************************************)
EXTENDS Integers, Sequences, FiniteSets, TLC

VARIABLES
    products,        \* Inventory._products: the list of product objects
    file,            \* the content of INVENTORY_FILE on disk
    total_products,  \* the module-level id counter (main.py line 588)
    clock,           \* what datetime.datetime.now() returns
    last             \* the last call made: its arguments, outcome and pre-state

vars == <<products, file, total_products, clock, last>>

---------------------------------------------------------------------------
(* Bounds of the model.                                                    *)

\* the longest product list the model builds
MaxProducts == 2

\* the largest stock a product is created with or restocked to
MaxStock == 2

\* the product ids the inputs draw from
ProductIds == {1, 2}

\* the quantities passed to sell_product and restock_product (positive)
Quantities == 1 .. MaxStock + 1

Types == {"Electronics", "Grocery", "Clothing"}

---------------------------------------------------------------------------
(* Dates.  A date string "DD/MM/YYYY" is described by what splitting it   *)
(* on '/' and converting the parts with int() gives:                      *)
(*   fmt = "dmy"    three integer parts d, m, y (in or out of range)      *)
(*   fmt = "short"  fewer or more than three parts                        *)
(*   fmt = "text"   a part that int() rejects                             *)
(*   fmt = "huge"   three integer parts, the year beyond a C int          *)
(*   fmt = "nonstr" not a string at all (a JSON number, None)             *)
(* A datetime is <<year, month, day, t>>, t the time of day (0 at         *)
(* midnight, which is what datetime(year, month, day) gives).             *)

DateStr(d, m, y) == [fmt |-> "dmy", d |-> d, m |-> m, y |-> y]
BadStr(fmt) == [fmt |-> fmt, d |-> 0, m |-> 0, y |-> 0]

\* None, where a datetime is expected
NoDate == <<>>

IsLeap(y) == (y % 4 = 0) /\ ((y % 100 # 0) \/ (y % 400 = 0))

DaysInMonth(y, m) ==
    IF m = 2 THEN (IF IsLeap(y) THEN 29 ELSE 28)
    ELSE IF m \in {4, 6, 9, 11} THEN 30 ELSE 31

\* datetime.datetime(year, month, day): ValueError when out of range
datetime(year, month, day) ==
    IF /\ year >= 1 /\ year <= 9999
       /\ month >= 1 /\ month <= 12
       /\ day >= 1 /\ day <= DaysInMonth(year, month)
    THEN [exc |-> "None", value |-> <<year, month, day, 0>>]
    ELSE [exc |-> "ValueError"]

\* a < b on datetimes
DtLess(a, b) ==
    \/ a[1] < b[1]
    \/ a[1] = b[1] /\ a[2] < b[2]
    \/ a[1] = b[1] /\ a[2] = b[2] /\ a[3] < b[3]
    \/ a[1] = b[1] /\ a[2] = b[2] /\ a[3] = b[3] /\ a[4] < b[4]

\* day, month, year = map(int, date_str.split('/')); datetime(year, month, day)
parse_dmy(date_str) ==
    CASE date_str.fmt = "nonstr" -> [exc |-> "AttributeError"]
      [] date_str.fmt = "short"  -> [exc |-> "ValueError"]
      [] date_str.fmt = "text"   -> [exc |-> "ValueError"]
      [] date_str.fmt = "huge"   -> [exc |-> "OverflowError"]
      [] date_str.fmt = "dmy"    -> datetime(date_str.y, date_str.m, date_str.d)

\* a _parse_date that lets the ValueError out
\* (used as a variant of Grocery_parse_date)
Grocery_parse_date_strict(date_str, now) == parse_dmy(date_str)

\* Grocery._parse_date: a ValueError is replaced by the current time
Grocery_parse_date(date_str, now) ==
    LET r == parse_dmy(date_str)
    IN  IF r.exc = "ValueError" THEN [exc |-> "None", value |-> now] ELSE r

---------------------------------------------------------------------------
(* Product objects.                                                        *)

\* Electronics.__init__
Electronics(product_id, name, price, quantity_in_stock, warranty_years, brand) ==
    [exc |-> "None",
     value |-> [type |-> "Electronics", product_id |-> product_id, name |-> name,
                price |-> price, quantity_in_stock |-> quantity_in_stock,
                warranty_years |-> warranty_years, brand |-> brand]]

\* Grocery.__init__: raises what _parse_date raises
Grocery(product_id, name, price, quantity_in_stock, expiry_date, now) ==
    LET r == Grocery_parse_date(expiry_date, now)
    IN  IF r.exc # "None" THEN r
        ELSE [exc |-> "None",
              value |-> [type |-> "Grocery", product_id |-> product_id, name |-> name,
                         price |-> price, quantity_in_stock |-> quantity_in_stock,
                         expiry_date_str |-> expiry_date, expiry_date |-> r.value]]

\* Clothing.__init__
Clothing(product_id, name, price, quantity_in_stock, size, material) ==
    [exc |-> "None",
     value |-> [type |-> "Clothing", product_id |-> product_id, name |-> name,
                price |-> price, quantity_in_stock |-> quantity_in_stock,
                size |-> size, material |-> material]]

InsufficientStockError(product_name, requested, available) ==
    [exc |-> "InsufficientStockError", product_name |-> product_name,
     requested |-> requested, available |-> available]

\* Electronics.restock
Electronics_restock(p, amount) ==
    [p EXCEPT !.quantity_in_stock = p.quantity_in_stock + amount]

\* Grocery.restock
Grocery_restock(p, amount) ==
    [p EXCEPT !.quantity_in_stock = p.quantity_in_stock + amount]

\* a restock that assigns the amount instead of adding it
\* (used as a faulty variant of Clothing_restock)
Clothing_restock_assign(p, amount) ==
    [p EXCEPT !.quantity_in_stock = amount]

\* Clothing.restock
Clothing_restock(p, amount) ==
    [p EXCEPT !.quantity_in_stock = p.quantity_in_stock + amount]

\* product.restock(amount), dispatched on the class
restock(p, amount) ==
    CASE p.type = "Electronics" -> Electronics_restock(p, amount)
      [] p.type = "Grocery"     -> Grocery_restock(p, amount)
      [] p.type = "Clothing"    -> Clothing_restock(p, amount)

\* a sell that never refuses (used as a faulty variant of Grocery_sell)
Grocery_sell_unchecked(p, quantity) ==
    [exc |-> "None",
     value |-> [p EXCEPT !.quantity_in_stock = p.quantity_in_stock - quantity]]

\* a sell that reports the requested quantity as available
\* (used as a faulty variant of Clothing_sell)
Clothing_sell_misreport(p, quantity) ==
    IF p.quantity_in_stock >= quantity
    THEN [exc |-> "None",
          value |-> [p EXCEPT !.quantity_in_stock = p.quantity_in_stock - quantity]]
    ELSE InsufficientStockError(p.name, p.quantity_in_stock, quantity)

\* Electronics.sell: the result is the object after the call, or the exception
Electronics_sell(p, quantity) ==
    IF p.quantity_in_stock >= quantity
    THEN [exc |-> "None",
          value |-> [p EXCEPT !.quantity_in_stock = p.quantity_in_stock - quantity]]
    ELSE InsufficientStockError(p.name, quantity, p.quantity_in_stock)

\* Grocery.sell
Grocery_sell(p, quantity) ==
    IF p.quantity_in_stock >= quantity
    THEN [exc |-> "None",
          value |-> [p EXCEPT !.quantity_in_stock = p.quantity_in_stock - quantity]]
    ELSE InsufficientStockError(p.name, quantity, p.quantity_in_stock)

\* Clothing.sell
Clothing_sell(p, quantity) ==
    IF p.quantity_in_stock >= quantity
    THEN [exc |-> "None",
          value |-> [p EXCEPT !.quantity_in_stock = p.quantity_in_stock - quantity]]
    ELSE InsufficientStockError(p.name, quantity, p.quantity_in_stock)

\* product.sell(quantity), dispatched on the class
sell(p, quantity) ==
    CASE p.type = "Electronics" -> Electronics_sell(p, quantity)
      [] p.type = "Grocery"     -> Grocery_sell(p, quantity)
      [] p.type = "Clothing"    -> Clothing_sell(p, quantity)

\* an is_expired that counts the reference day itself as expired
\* (used as a faulty variant of is_expired)
is_expired_inclusive(p, current_date, now) ==
    LET cd == IF current_date = NoDate THEN now ELSE current_date
    IN  ~DtLess(cd, p.expiry_date)

\* Grocery.is_expired(current_date=None)
is_expired(p, current_date, now) ==
    LET cd == IF current_date = NoDate THEN now ELSE current_date
    IN  DtLess(p.expiry_date, cd)

---------------------------------------------------------------------------
(* Inventory.                                                              *)

\* the position the loop "for product in self._products" stops at: the first
\* product with the id, 0 when the loop runs to its end
FirstWithId(ps, product_id) ==
    IF \E i \in 1 .. Len(ps) : ps[i].product_id = product_id
    THEN CHOOSE i \in 1 .. Len(ps) :
            /\ ps[i].product_id = product_id
            /\ \A j \in 1 .. i - 1 : ps[j].product_id # product_id
    ELSE 0

\* Inventory.add_product
add_product(ps, product) ==
    [exc |-> "None", products |-> Append(ps, product)]

\* Inventory.remove_product
remove_product(ps, product_id) ==
    LET original_length == Len(ps)
        kept == SelectSeq(ps, LAMBDA product : product.product_id # product_id)
    IN  [products |-> kept, ret |-> Len(kept) < original_length]

\* Inventory.sell_product: the InsufficientStockError is caught and reported
sell_product(ps, product_id, quantity) ==
    LET i == FirstWithId(ps, product_id)
    IN  IF i = 0
        THEN [products |-> ps, ret |-> FALSE, found |-> FALSE, error |-> [exc |-> "None"]]
        ELSE LET r == sell(ps[i], quantity)
             IN  IF r.exc = "None"
                 THEN [products |-> [ps EXCEPT ![i] = r.value], ret |-> TRUE,
                       found |-> TRUE, error |-> [exc |-> "None"]]
                 ELSE [products |-> ps, ret |-> FALSE, found |-> TRUE, error |-> r]

\* a restock_product whose loop does not return at the match: every product
\* with the id is restocked and the call ends as "not found"
\* (used as a faulty variant of restock_product)
restock_product_no_return(ps, product_id, quantity) ==
    [products |-> [i \in 1 .. Len(ps) |->
                     IF ps[i].product_id = product_id
                     THEN restock(ps[i], quantity) ELSE ps[i]],
     ret |-> FALSE]

\* Inventory.restock_product
restock_product(ps, product_id, quantity) ==
    LET i == FirstWithId(ps, product_id)
    IN  IF i = 0
        THEN [products |-> ps, ret |-> FALSE]
        ELSE [products |-> [ps EXCEPT ![i] = restock(ps[i], quantity)], ret |-> TRUE]

\* the sub-list of ps at the positions in keep, in list order
AtPositions(ps, keep) ==
    LET F[i \in 0 .. Len(ps)] ==
            IF i = 0 THEN <<>>
            ELSE IF i \in keep THEN Append(F[i - 1], ps[i]) ELSE F[i - 1]
    IN  F[Len(ps)]

\* Inventory.remove_expired_products.  A ValueError of the date parse is
\* replaced by the current time; any other exception leaves the method.
\* list.remove(product) finds the object itself (the classes define no
\* __eq__), so the objects that go are those at the expired positions.
remove_expired_products(ps, current_date_str, now) ==
    LET r == parse_dmy(current_date_str)
    IN  IF r.exc \notin {"None", "ValueError"}
        THEN [exc |-> r.exc, products |-> ps, ret |-> <<>>, invalid_date |-> FALSE]
        ELSE LET current_date == IF r.exc = "ValueError" THEN now ELSE r.value
                 expired == {i \in 1 .. Len(ps) :
                                /\ ps[i].type = "Grocery"
                                /\ is_expired(ps[i], current_date, now)}
             IN  [exc |-> "None",
                  products |-> AtPositions(ps, (1 .. Len(ps)) \ expired),
                  ret |-> AtPositions(ps, expired),
                  invalid_date |-> (r.exc = "ValueError")]

---------------------------------------------------------------------------
(* The values the callers pass.                                            *)

ValidDate1 == DateStr(15, 3, 2024)
ValidDate2 == DateStr(2, 1, 2024)

\* a caller's constructor call for a product of the given class, as in
\* add_product_menu: the class decides which constructor runs
Construct(type, product_id, quantity_in_stock, expiry_date, now) ==
    CASE type = "Electronics" ->
            Electronics(product_id, "Laptop", 900, quantity_in_stock, 2, "Acme")
      [] type = "Grocery" ->
            Grocery(product_id, "Milk", 3, quantity_in_stock, expiry_date, now)
      [] type = "Clothing" ->
            Clothing(product_id, "Shirt", 20, quantity_in_stock, "M", "Cotton")

---------------------------------------------------------------------------
(* The state machine.                                                      *)

Now1 == <<2024, 4, 10, 1>>
Now2 == <<2024, 4, 10, 2>>

\* the file before anything was saved
NoFile == [kind |-> "absent"]

Init ==
    /\ products = <<>>
    /\ file = NoFile
    /\ total_products = 1
    /\ clock = Now1
    /\ last = [op |-> "init"]

\* a caller constructs a product and passes it to inventory.add_product
AddProduct(type, product_id, quantity_in_stock, expiry_date) ==
    /\ Len(products) < MaxProducts
    /\ LET c == Construct(type, product_id, quantity_in_stock, expiry_date, clock)
       IN  IF c.exc # "None"
           THEN /\ products' = products
                /\ last' = [op |-> "construct", type |-> type, exc |-> c.exc,
                            expiry_date |-> expiry_date, before |-> products]
           ELSE LET r == add_product(products, c.value)
                IN  /\ products' = r.products
                    /\ last' = [op |-> "add_product", product |-> c.value,
                                exc |-> r.exc, now |-> clock, before |-> products]
    /\ UNCHANGED <<file, total_products, clock>>

\* inventory.remove_product(product_id)
RemoveProduct(product_id) ==
    /\ LET r == remove_product(products, product_id)
       IN  /\ products' = r.products
           /\ last' = [op |-> "remove_product", product_id |-> product_id,
                       ret |-> r.ret, before |-> products]
    /\ UNCHANGED <<file, total_products, clock>>

\* inventory.sell_product(product_id, quantity)
SellProduct(product_id, quantity) ==
    /\ LET r == sell_product(products, product_id, quantity)
       IN  /\ products' = r.products
           /\ last' = [op |-> "sell_product", product_id |-> product_id,
                       quantity |-> quantity, ret |-> r.ret, found |-> r.found,
                       error |-> r.error, before |-> products]
    /\ UNCHANGED <<file, total_products, clock>>

\* inventory.restock_product(product_id, quantity); the model stops
\* restocking a product at MaxStock
RestockProduct(product_id, quantity) ==
    /\ \A i \in 1 .. Len(products) :
          products[i].product_id = product_id
             => products[i].quantity_in_stock + quantity <= MaxStock
    /\ LET r == restock_product(products, product_id, quantity)
           undoes == /\ last.op = "sell_product"
                     /\ last.ret
                     /\ last.product_id = product_id
                     /\ last.quantity = quantity
       IN  /\ products' = r.products
           /\ last' = [op |-> "restock_product", product_id |-> product_id,
                       quantity |-> quantity, ret |-> r.ret, before |-> products,
                       after_sell |-> undoes,
                       sold_before |-> IF undoes THEN last.before ELSE <<>>]
    /\ UNCHANGED <<file, total_products, clock>>

\* the stock operations of the Inventory, on products with valid dates
Next ==
    \/ \E type \in Types, product_id \in ProductIds, q \in 0 .. MaxStock :
          AddProduct(type, product_id, q, ValidDate1)
    \/ \E product_id \in ProductIds : RemoveProduct(product_id)
    \/ \E product_id \in ProductIds, q \in Quantities : SellProduct(product_id, q)
    \/ \E product_id \in ProductIds, q \in Quantities : RestockProduct(product_id, q)

Spec == Init /\ [][Next]_vars

---------------------------------------------------------------------------
(* Properties of the stock operations (specification Spec).                *)

\* the position sell_product and restock_product act on in the pre-state
Target == FirstWithId(last.before, last.product_id)

\* C1: in every reachable state no two products of the inventory have the
\* same product id.
C1_UniqueIds ==
    \A i, j \in 1 .. Len(products) :
        i # j => products[i].product_id # products[j].product_id

\* C2: add_product(p) with an id already in the inventory fails with
\* DuplicateProductIDError and leaves the product list as it was; with a new
\* id it appends p and keeps the earlier products at their positions.
C2_AddProductRejectsDuplicate ==
    last.op = "add_product" =>
        IF \E i \in 1 .. Len(last.before) :
              last.before[i].product_id = last.product.product_id
        THEN last.exc = "DuplicateProductIDError" /\ products = last.before
        ELSE last.exc = "None" /\ products = Append(last.before, last.product)

\* C3: with products created with a stock >= 0 and positive quantities sold
\* and restocked, no stock is ever negative; a sell of more than the stock
\* changes nothing (it is neither clamped to zero nor applied in part).
C3_StockNeverNegative ==
    /\ \A i \in 1 .. Len(products) : products[i].quantity_in_stock >= 0
    /\ (/\ last.op = "sell_product"
        /\ Target # 0
        /\ last.quantity > last.before[Target].quantity_in_stock)
          => products = last.before

\* C3 witness: a sell of more than a positive stock was refused.
C3_Witness ==
    /\ last.op = "sell_product"
    /\ Target # 0
    /\ last.before[Target].quantity_in_stock > 0
    /\ last.quantity > last.before[Target].quantity_in_stock
    /\ products = last.before

\* C4: a sell of more than the stock raises InsufficientStockError with
\* available = the stock before the call and requested = the quantity, for
\* each product class; sell_product then returns False and no stock changes.
C4_InsufficientStockReported ==
    (/\ last.op = "sell_product"
     /\ Target # 0
     /\ last.quantity > last.before[Target].quantity_in_stock)
       => /\ last.ret = FALSE
          /\ last.error.exc = "InsufficientStockError"
          /\ last.error.available = last.before[Target].quantity_in_stock
          /\ last.error.requested = last.quantity
          /\ last.error.product_name = last.before[Target].name
          /\ products = last.before

\* C4 witness: the second product of the list, a Clothing in stock, was asked
\* for more than it has.
C4_Witness ==
    /\ last.op = "sell_product"
    /\ Target = 2
    /\ last.before[Target].type = "Clothing"
    /\ last.before[Target].quantity_in_stock > 0
    /\ last.quantity > last.before[Target].quantity_in_stock
    /\ last.ret = FALSE

\* C11: sell_product and restock_product with an id no product has return
\* False and change nothing; restock_product on an id that exists returns
\* True and adds exactly the quantity to that product's stock; both calls
\* leave every other product, and every other field, as they were.
C11_NotFoundAndFrame ==
    /\ (last.op \in {"sell_product", "restock_product"} /\ Target = 0)
          => last.ret = FALSE /\ products = last.before
    /\ (last.op = "restock_product" /\ Target # 0)
          => /\ last.ret = TRUE
             /\ products[Target].quantity_in_stock
                   = last.before[Target].quantity_in_stock + last.quantity
             /\ products = [last.before EXCEPT ![Target].quantity_in_stock
                                                  = @ + last.quantity]
    /\ (last.op = "sell_product" /\ Target # 0)
          => /\ Len(products) = Len(last.before)
             /\ \A i \in 1 .. Len(products) :
                   [products[i] EXCEPT !.quantity_in_stock = 0]
                      = [last.before[i] EXCEPT !.quantity_in_stock = 0]
             /\ \A i \in 1 .. Len(products) :
                   i # Target => products[i] = last.before[i]

\* C11 witness: the second of two products was restocked, the first has
\* another id.
C11_Witness ==
    /\ last.op = "restock_product"
    /\ Target = 2
    /\ last.ret = TRUE
    /\ products[2].quantity_in_stock > last.before[2].quantity_in_stock
    /\ products[1] = last.before[1]

\* C12: sell(q) followed by restock(q) on the same product, 0 < q <= stock,
\* leaves the stock at its value before the sell and changes no other field,
\* for each product class.
C12_SellThenRestock ==
    (last.op = "restock_product" /\ last.after_sell)
       => /\ Target # 0
          /\ products[Target].quantity_in_stock
                = last.sold_before[Target].quantity_in_stock
          /\ products = last.sold_before

\* C12 witness: a Clothing with stock 2 was sold one unit and restocked one.
C12_Witness ==
    /\ last.op = "restock_product"
    /\ last.after_sell
    /\ last.quantity = 1
    /\ last.sold_before[Target].type = "Clothing"
    /\ last.sold_before[Target].quantity_in_stock = 2
    /\ last.before[Target].quantity_in_stock = 1
    /\ products[Target].quantity_in_stock = 2

\* C10: remove_product(id) removes the one product with the id and returns
\* True, the length going down by exactly one; with no such product it
\* returns False and changes nothing; the other products keep their fields
\* and their order.
C10_RemoveExactlyOne ==
    last.op = "remove_product" =>
        LET i == FirstWithId(last.before, last.product_id)
        IN  IF i = 0
            THEN last.ret = FALSE /\ products = last.before
            ELSE /\ last.ret = TRUE
                 /\ Len(products) = Len(last.before) - 1
                 /\ products = SubSeq(last.before, 1, i - 1)
                                 \o SubSeq(last.before, i + 1, Len(last.before))

---------------------------------------------------------------------------
(* The expiry sweep (specification SpecExpiry).                            *)

\* the expiry dates groceries are created with
ExpiryInputs ==
    {ValidDate1, ValidDate2, DateStr(31, 2, 2024), BadStr("text"),
     BadStr("huge"), BadStr("nonstr")}

\* the reference dates passed to remove_expired_products
ReferenceInputs ==
    {ValidDate1, DateStr(1, 2, 2024), DateStr(1, 13, 2024), BadStr("short"),
     BadStr("huge"), BadStr("nonstr")}

\* inventory.remove_expired_products(current_date_str)
RemoveExpiredProducts(current_date_str) ==
    /\ LET r == remove_expired_products(products, current_date_str, clock)
       IN  /\ products' = r.products
           /\ last' = [op |-> "remove_expired_products",
                       current_date_str |-> current_date_str, exc |-> r.exc,
                       ret |-> r.ret, invalid_date |-> r.invalid_date,
                       now |-> clock, before |-> products]
    /\ UNCHANGED <<file, total_products, clock>>

\* time passes
Tick ==
    /\ clock = Now1
    /\ clock' = Now2
    /\ UNCHANGED <<products, file, total_products, last>>

NextExpiry ==
    \/ \E type \in {"Electronics", "Clothing"}, product_id \in ProductIds :
          AddProduct(type, product_id, 1, ValidDate1)
    \/ \E product_id \in ProductIds, d \in ExpiryInputs :
          AddProduct("Grocery", product_id, 1, d)
    \/ \E d \in ReferenceInputs : RemoveExpiredProducts(d)
    \/ Tick

SpecExpiry == Init /\ [][NextExpiry]_vars

\* the positions of the groceries of the pre-state whose expiry date is
\* strictly earlier than the reference date
ExpiredBefore(reference) ==
    {i \in 1 .. Len(last.before) :
        /\ last.before[i].type = "Grocery"
        /\ DtLess(last.before[i].expiry_date, reference)}

\* C7: remove_expired_products(date), date a valid DD/MM/YYYY date, removes
\* exactly the groceries whose expiry date is strictly earlier than date and
\* returns them; every other product stays, with its fields and in its order.
C7_RemovesExactlyExpired ==
    (/\ last.op = "remove_expired_products"
     /\ parse_dmy(last.current_date_str).exc = "None")
       => LET expired == ExpiredBefore(parse_dmy(last.current_date_str).value)
          IN  /\ last.exc = "None"
              /\ last.ret = AtPositions(last.before, expired)
              /\ products = AtPositions(last.before, (1 .. Len(last.before)) \ expired)
              /\ \A i \in 1 .. Len(last.before) :
                    (/\ last.before[i].type = "Grocery"
                     /\ parse_dmy(last.before[i].expiry_date_str).exc = "None")
                       => (i \in expired <=>
                              DtLess(parse_dmy(last.before[i].expiry_date_str).value,
                                     parse_dmy(last.current_date_str).value))
              /\ (expired = {} => last.ret = <<>> /\ products = last.before)

\* C7 witness: a sweep removed one grocery and kept a grocery that expires on
\* the reference day itself.
C7_Witness ==
    /\ last.op = "remove_expired_products"
    /\ last.current_date_str = ValidDate1
    /\ Len(last.before) = 2
    /\ last.before[1].type = "Grocery"
    /\ last.before[1].expiry_date_str = ValidDate1
    /\ last.before[2].type = "Grocery"
    /\ last.before[2].expiry_date_str = ValidDate2
    /\ last.ret = <<last.before[2]>>
    /\ products = <<last.before[1]>>

ValueErrorDate(date_str) == parse_dmy(date_str).exc = "ValueError"

---------------------------------------------------------------------------
(* Persistence.  The file is absent, holds a complete JSON array, or holds *)
(* a text that was cut short (which json.load rejects).  An array entry is *)
(* a JSON object with its members, or a JSON value of another kind.        *)

JsonObject(members) == [json |-> "object", members |-> members]
JsonNumber == [json |-> "number"]
JsonString == [json |-> "string"]

JsonArray(entries) == [kind |-> "json", data |-> entries]
PartialFile(entries) == [kind |-> "partial", data |-> entries]

\* the dict save_inventory builds for one product
product_data(product) ==
    CASE product.type = "Electronics" ->
            [product_id |-> product.product_id, name |-> product.name,
             price |-> product.price,
             quantity_in_stock |-> product.quantity_in_stock,
             type |-> "Electronics",
             warranty_years |-> product.warranty_years, brand |-> product.brand]
      [] product.type = "Grocery" ->
            [product_id |-> product.product_id, name |-> product.name,
             price |-> product.price,
             quantity_in_stock |-> product.quantity_in_stock,
             type |-> "Grocery",
             expiry_date |-> product.expiry_date_str]
      [] product.type = "Clothing" ->
            [product_id |-> product.product_id, name |-> product.name,
             price |-> product.price,
             quantity_in_stock |-> product.quantity_in_stock,
             type |-> "Clothing",
             size |-> product.size, material |-> product.material]

\* what the operating system does to a save: nothing, refuse the open,
\* fail a write after some entries reached the file, or fail the close
\* after all of them did
IoOutcomes(ps) ==
    {[fail |-> "none", after |-> 0], [fail |-> "open", after |-> 0],
     [fail |-> "close", after |-> Len(ps)]}
       \cup {[fail |-> "write", after |-> k] : k \in 0 .. Len(ps)}

\* a save that takes "nothing to save" literally and leaves the file alone
\* when the inventory is empty (used as a faulty variant of save_inventory)
save_inventory_skip_empty(ps, old, io) ==
    LET products_data == [i \in 1 .. Len(ps) |-> JsonObject(product_data(ps[i]))]
    IN  IF Len(ps) = 0
        THEN [ret |-> TRUE, file |-> old]
        ELSE CASE io.fail = "open"  -> [ret |-> FALSE, file |-> old]
               [] io.fail = "write" ->
                     [ret |-> FALSE,
                      file |-> PartialFile(SubSeq(products_data, 1, io.after))]
               [] io.fail = "close" -> [ret |-> FALSE, file |-> JsonArray(products_data)]
               [] io.fail = "none"  -> [ret |-> TRUE, file |-> JsonArray(products_data)]

\* save_inventory: open(INVENTORY_FILE, 'w') empties the file, json.dump
\* writes into it; every exception is caught and gives False
save_inventory(ps, old, io) ==
    LET products_data == [i \in 1 .. Len(ps) |-> JsonObject(product_data(ps[i]))]
    IN  IF Len(ps) = 0
        THEN CASE io.fail = "open"  -> [ret |-> FALSE, file |-> old]
               [] io.fail = "write" -> [ret |-> FALSE, file |-> PartialFile(<<>>)]
               [] io.fail = "close" -> [ret |-> FALSE, file |-> JsonArray(<<>>)]
               [] io.fail = "none"  -> [ret |-> TRUE, file |-> JsonArray(<<>>)]
        ELSE CASE io.fail = "open"  -> [ret |-> FALSE, file |-> old]
               [] io.fail = "write" ->
                     [ret |-> FALSE,
                      file |-> PartialFile(SubSeq(products_data, 1, io.after))]
               [] io.fail = "close" -> [ret |-> FALSE, file |-> JsonArray(products_data)]
               [] io.fail = "none"  -> [ret |-> TRUE, file |-> JsonArray(products_data)]

\* Inventory.save_to_file: the same steps, on the file named by the caller
save_to_file(ps, old, io) ==
    LET products_data == [i \in 1 .. Len(ps) |-> JsonObject(product_data(ps[i]))]
    IN  IF Len(ps) = 0
        THEN CASE io.fail = "open"  -> [ret |-> FALSE, file |-> old]
               [] io.fail = "write" -> [ret |-> FALSE, file |-> PartialFile(<<>>)]
               [] io.fail = "close" -> [ret |-> FALSE, file |-> JsonArray(<<>>)]
               [] io.fail = "none"  -> [ret |-> TRUE, file |-> JsonArray(<<>>)]
        ELSE CASE io.fail = "open"  -> [ret |-> FALSE, file |-> old]
               [] io.fail = "write" ->
                     [ret |-> FALSE,
                      file |-> PartialFile(SubSeq(products_data, 1, io.after))]
               [] io.fail = "close" -> [ret |-> FALSE, file |-> JsonArray(products_data)]
               [] io.fail = "none"  -> [ret |-> TRUE, file |-> JsonArray(products_data)]

InvalidProductDataError(reason) ==
    [exc |-> "InvalidProductDataError", reason |-> reason]

required_fields == <<"product_id", "name", "price", "quantity_in_stock", "type">>

\* a rebuild of one entry that passes size and material in the wrong order
\* (used as a faulty variant of load_product)
load_product_swapped(entry, now) ==
    IF entry.json = "number" THEN [exc |-> "TypeError"]
    ELSE IF entry.json = "string"
    THEN InvalidProductDataError("Missing required field")
    ELSE LET d == entry.members
         IN  IF \E i \in 1 .. Len(required_fields) : required_fields[i] \notin DOMAIN d
             THEN InvalidProductDataError("Missing required field")
             ELSE CASE d.type = "Electronics" ->
                         IF "warranty_years" \notin DOMAIN d \/ "brand" \notin DOMAIN d
                         THEN InvalidProductDataError("Missing Electronics-specific fields")
                         ELSE Electronics(d.product_id, d.name, d.price,
                                          d.quantity_in_stock, d.warranty_years, d.brand)
                    [] d.type = "Grocery" ->
                         IF "expiry_date" \notin DOMAIN d
                         THEN InvalidProductDataError("Missing Grocery-specific fields")
                         ELSE Grocery(d.product_id, d.name, d.price,
                                      d.quantity_in_stock, d.expiry_date, now)
                    [] d.type = "Clothing" ->
                         IF "size" \notin DOMAIN d \/ "material" \notin DOMAIN d
                         THEN InvalidProductDataError("Missing Clothing-specific fields")
                         ELSE Clothing(d.product_id, d.name, d.price,
                                       d.quantity_in_stock, d.material, d.size)
                    [] OTHER -> InvalidProductDataError("Unknown product type")

\* the body of load_inventory's loop for one array entry: the product, or
\* the exception raised.  "field not in product_data" raises TypeError on a
\* JSON number or null, and is a substring test, false for an ordinary
\* string, on a JSON string.
load_product(entry, now) ==
    IF entry.json = "number" THEN [exc |-> "TypeError"]
    ELSE IF entry.json = "string"
    THEN InvalidProductDataError("Missing required field")
    ELSE LET d == entry.members
         IN  IF \E i \in 1 .. Len(required_fields) : required_fields[i] \notin DOMAIN d
             THEN InvalidProductDataError("Missing required field")
             ELSE CASE d.type = "Electronics" ->
                         IF "warranty_years" \notin DOMAIN d \/ "brand" \notin DOMAIN d
                         THEN InvalidProductDataError("Missing Electronics-specific fields")
                         ELSE Electronics(d.product_id, d.name, d.price,
                                          d.quantity_in_stock, d.warranty_years, d.brand)
                    [] d.type = "Grocery" ->
                         IF "expiry_date" \notin DOMAIN d
                         THEN InvalidProductDataError("Missing Grocery-specific fields")
                         ELSE Grocery(d.product_id, d.name, d.price,
                                      d.quantity_in_stock, d.expiry_date, now)
                    [] d.type = "Clothing" ->
                         IF "size" \notin DOMAIN d \/ "material" \notin DOMAIN d
                         THEN InvalidProductDataError("Missing Clothing-specific fields")
                         ELSE Clothing(d.product_id, d.name, d.price,
                                       d.quantity_in_stock, d.size, d.material)
                    [] OTHER -> InvalidProductDataError("Unknown product type")

MaxOf(S) == CHOOSE x \in S : \A y \in S : y <= x

\* load_inventory: an InvalidProductDataError skips the entry; any other
\* exception ends the load with an empty inventory
load_inventory(f, total, now) ==
    IF f.kind = "absent"
    THEN [products |-> <<>>, total_products |-> total, outcome |-> "no file",
          skipped |-> 0]
    ELSE IF f.kind = "partial"
    THEN [products |-> <<>>, total_products |-> total,
          outcome |-> "JSONDecodeError", skipped |-> 0]
    ELSE LET n == Len(f.data)
             R[i \in 0 .. n] ==
                IF i = 0 THEN [exc |-> "None", products |-> <<>>, skipped |-> 0]
                ELSE IF R[i - 1].exc # "None" THEN R[i - 1]
                ELSE LET r == load_product(f.data[i], now)
                     IN  IF r.exc = "None"
                         THEN [R[i - 1] EXCEPT !.products = Append(@, r.value)]
                         ELSE IF r.exc = "InvalidProductDataError"
                         THEN [R[i - 1] EXCEPT !.skipped = @ + 1]
                         ELSE [R[i - 1] EXCEPT !.exc = r.exc]
         IN  IF R[n].exc # "None"
             THEN [products |-> <<>>, total_products |-> total,
                   outcome |-> R[n].exc, skipped |-> R[n].skipped]
             ELSE LET loaded == R[n].products
                      max_id == MaxOf({loaded[i].product_id : i \in 1 .. Len(loaded)})
                  IN  [products |-> loaded,
                       total_products |->
                          IF Len(loaded) > 0
                          THEN (IF total >= max_id THEN total ELSE max_id)
                          ELSE total,
                       outcome |-> "loaded", skipped |-> R[n].skipped]

---------------------------------------------------------------------------
(* Saving and loading (specification SpecCodec): an inventory of any       *)
(* products is saved, changed, saved again and loaded.                     *)

\* whether the last call was a save that returned True
SavedJustNow == last.op \in {"save_inventory", "save_to_file"} /\ last.ret

\* save_inventory(inventory)
SaveInventory(io) ==
    /\ LET r == save_inventory(products, file, io)
       IN  /\ file' = r.file
           /\ last' = [op |-> "save_inventory", ret |-> r.ret, io |-> io,
                       before_file |-> file, before |-> products]
    /\ UNCHANGED <<products, total_products, clock>>

\* inventory.save_to_file(INVENTORY_FILE)
SaveToFile(io) ==
    /\ LET r == save_to_file(products, file, io)
       IN  /\ file' = r.file
           /\ last' = [op |-> "save_to_file", ret |-> r.ret, io |-> io,
                       before_file |-> file, before |-> products]
    /\ UNCHANGED <<products, total_products, clock>>

\* inventory = load_inventory()
LoadInventory ==
    /\ LET r == load_inventory(file, total_products, clock)
       IN  /\ products' = r.products
           /\ total_products' = r.total_products
           /\ last' = [op |-> "load_inventory", outcome |-> r.outcome,
                       skipped |-> r.skipped, file |-> file, now |-> clock,
                       after_save |-> SavedJustNow, before |-> products]
    /\ UNCHANGED <<file, clock>>

\* the products the saved inventories are made of
CodecProducts ==
    {Construct("Electronics", 1, 1, ValidDate1, Now1).value,
     Construct("Grocery", 2, 1, ValidDate1, Now1).value,
     Construct("Grocery", 1, 1, BadStr("text"), Now1).value,
     Construct("Clothing", 2, 1, ValidDate1, Now1).value}

SeqsUpTo(S, n) == UNION {[1 .. k -> S] : k \in 0 .. n}

InitCodec ==
    /\ products \in SeqsUpTo(CodecProducts, MaxProducts)
    /\ file = NoFile
    /\ total_products = 1
    /\ clock = Now1
    /\ last = [op |-> "init"]

NextCodec ==
    \/ \E io \in IoOutcomes(products) : SaveInventory(io)
    \/ \E io \in IoOutcomes(products) : SaveToFile(io)
    \/ LoadInventory
    \/ \E product_id \in ProductIds : RemoveProduct(product_id)
    \/ Tick

SpecCodec == InitCodec /\ [][NextCodec]_vars

\* the fields a product shows: everything but the parsed expiry date
SameFields(p, q) ==
    /\ p.type = q.type
    /\ p.product_id = q.product_id
    /\ p.name = q.name
    /\ p.price = q.price
    /\ p.quantity_in_stock = q.quantity_in_stock
    /\ p.type = "Electronics" =>
          p.warranty_years = q.warranty_years /\ p.brand = q.brand
    /\ p.type = "Grocery" => p.expiry_date_str = q.expiry_date_str
    /\ p.type = "Clothing" => p.size = q.size /\ p.material = q.material

\* C5: loading the file a save has just written gives an inventory of the
\* same length whose product at each position has the class, id, name,
\* price, quantity and class-specific fields of the saved product there;
\* the empty inventory is written as an empty array.
C5_SaveLoadRoundTrip ==
    (last.op = "load_inventory" /\ last.after_save)
       => /\ last.outcome = "loaded"
          /\ Len(products) = Len(last.before)
          /\ \A i \in 1 .. Len(last.before) : SameFields(products[i], last.before[i])
          /\ Len(last.before) = 0 => last.file = JsonArray(<<>>)

\* C5 witness: a Clothing and a Grocery with a malformed date string came
\* back from the file, the Grocery with a newly substituted expiry date.
C5_Witness ==
    /\ last.op = "load_inventory"
    /\ last.after_save
    /\ Len(products) = 2
    /\ products[1].type = "Clothing"
    /\ products[2].type = "Grocery"
    /\ products[2].expiry_date # last.before[2].expiry_date

\* the array a save of the pre-state has to write
ExpectedData == [i \in 1 .. Len(last.before) |-> JsonObject(product_data(last.before[i]))]

IsSave == last.op \in {"save_inventory", "save_to_file"}

\* C9 as claimed: a save that fails leaves the file as it was; a save that
\* succeeds leaves exactly the current product list in it.
C9_SaveAllOrNothing ==
    IsSave =>
        IF last.ret THEN file = JsonArray(ExpectedData) ELSE file = last.before_file

\* C9 amended: a save returns True exactly when nothing fails and never
\* changes the inventory.  Only a failure to open the file leaves the file
\* as it was.  A failure while writing or closing comes after the file was
\* emptied: the old content is gone and the file holds a prefix of the new
\* data (none of it, some entries, or all).  A save that succeeds leaves
\* exactly the current product list in the file.
C9_SaveOverwrites ==
    IsSave =>
        /\ last.ret = (last.io.fail = "none")
        /\ products = last.before
        /\ last.io.fail = "open" => file = last.before_file
        /\ last.io.fail = "write" =>
              file = PartialFile(SubSeq(ExpectedData, 1, last.io.after))
        /\ last.io.fail \in {"close", "none"} => file = JsonArray(ExpectedData)

\* C9 witness: a write failed on a file that held a saved inventory, and
\* the file no longer holds it.
C9_Witness ==
    /\ last.op = "save_inventory"
    /\ last.io.fail = "write"
    /\ last.ret = FALSE
    /\ last.before_file.kind = "json"
    /\ Len(last.before_file.data) = 2
    /\ file.kind = "partial"
    /\ Len(file.data) < 2

---------------------------------------------------------------------------
(* Loading a file of any entries (specification SpecLoad).                 *)

DropKey(entry, key) ==
    JsonObject([k \in DOMAIN entry.members \ {key} |-> entry.members[k]])

GoodElectronics == JsonObject(product_data(Construct("Electronics", 1, 1, ValidDate1, Now1).value))
GoodGrocery == JsonObject(product_data(Construct("Grocery", 2, 1, ValidDate1, Now1).value))
GoodClothing == JsonObject(product_data(Construct("Clothing", 2, 1, ValidDate1, Now1).value))

\* the array entries the files are made of
EntryInputs ==
    {GoodElectronics, GoodGrocery, GoodClothing,
     JsonObject([GoodGrocery.members EXCEPT !.expiry_date = BadStr("text")]),
     JsonObject([GoodGrocery.members EXCEPT !.expiry_date = BadStr("nonstr")]),
     JsonObject([GoodGrocery.members EXCEPT !.expiry_date = BadStr("huge")]),
     JsonObject([GoodElectronics.members EXCEPT !.type = "Toy"]),
     DropKey(GoodElectronics, "price"),
     DropKey(GoodElectronics, "brand"),
     DropKey(GoodGrocery, "expiry_date"),
     DropKey(GoodClothing, "material"),
     JsonNumber, JsonString}

InitLoad ==
    /\ products = <<>>
    /\ file \in {JsonArray(es) : es \in SeqsUpTo(EntryInputs, MaxProducts)}
    /\ total_products = 1
    /\ clock = Now1
    /\ last = [op |-> "init"]

NextLoad ==
    \/ LoadInventory
    \/ Tick

SpecLoad == InitLoad /\ [][NextLoad]_vars

\* an entry with the five common fields, a known type tag and the fields of
\* that type (an expiry date that is no string, or whose year no datetime
\* can take, is counted as malformed)
WellFormed(entry) ==
    /\ entry.json = "object"
    /\ \A i \in 1 .. Len(required_fields) : required_fields[i] \in DOMAIN entry.members
    /\ entry.members.type \in Types
    /\ entry.members.type = "Electronics" =>
          {"warranty_years", "brand"} \subseteq DOMAIN entry.members
    /\ entry.members.type = "Grocery" =>
          /\ "expiry_date" \in DOMAIN entry.members
          /\ entry.members.expiry_date.fmt \notin {"nonstr", "huge"}
    /\ entry.members.type = "Clothing" =>
          {"size", "material"} \subseteq DOMAIN entry.members

\* C6: load_inventory returns exactly the well-formed entries of the array,
\* in file order, whatever the other entries are.
C6_LoadIsolatesBadEntries ==
    (last.op = "load_inventory" /\ last.file.kind = "json")
       => LET good == {i \in 1 .. Len(last.file.data) : WellFormed(last.file.data[i])}
              expected == AtPositions(last.file.data, good)
          IN  /\ Len(products) = Len(expected)
              /\ \A i \in 1 .. Len(expected) :
                    product_data(products[i]) = expected[i].members

---------------------------------------------------------------------------
(* The menu: run_inventory_system and add_product_menu.                    *)

\* the largest value the id counter is followed to
MaxTotal == 4

\* a line the user types: the text of an integer, or any other text
Num(n) == [kind |-> "int", value |-> n]
NotANumber == [kind |-> "text"]

\* int(input(...)): ValueError on a text that is no integer
ParseInt(text) ==
    IF text.kind = "int"
    THEN [exc |-> "None", value |-> text.value]
    ELSE [exc |-> "ValueError"]

\* the ids of a product sequence
IdsOf(ps) == {ps[i].product_id : i \in 1 .. Len(ps)}

\* add_product_menu: the id is total_products + 1; the counter advances only
\* after the product was added; a ValueError of int() and an option outside
\* 1-3 leave inventory and counter alone
add_product_menu(ps, total, sub_opt, price, quantity_in_stock, warranty_years, expiry_date, now) ==
    LET product_id == total + 1
        p == ParseInt(price)
        q == ParseInt(quantity_in_stock)
        w == ParseInt(warranty_years)
        rejected(why) == [products |-> ps, total_products |-> total,
                          outcome |-> why, product_id |-> product_id]
        added(c) == IF c.exc # "None"
                    THEN rejected(c.exc)
                    ELSE [products |-> add_product(ps, c.value).products,
                          total_products |-> total + 1,
                          outcome |-> "added", product_id |-> product_id]
    IN  IF p.exc # "None" \/ q.exc # "None"
        THEN rejected("ValueError")
        ELSE CASE sub_opt = "1" ->
                    IF w.exc # "None"
                    THEN rejected("ValueError")
                    ELSE added(Electronics(product_id, "Laptop", p.value, q.value,
                                           w.value, "Acme"))
               [] sub_opt = "2" ->
                    added(Grocery(product_id, "Milk", p.value, q.value,
                                  expiry_date, now))
               [] sub_opt = "3" ->
                    added(Clothing(product_id, "Shirt", p.value, q.value,
                                   "M", "Cotton"))
               [] OTHER -> rejected("invalid option")

\* option 2: int() of the id, then remove_product
option_2_remove(ps, product_id) ==
    LET id == ParseInt(product_id)
    IN  IF id.exc # "None"
        THEN [products |-> ps, outcome |-> "ValueError"]
        ELSE [products |-> remove_product(ps, id.value).products,
              outcome |-> "called"]

\* option 5: int() of the id and of the quantity, then sell_product
option_5_sell(ps, product_id, quantity) ==
    LET id == ParseInt(product_id)
        q  == ParseInt(quantity)
    IN  IF id.exc # "None" \/ q.exc # "None"
        THEN [products |-> ps, outcome |-> "ValueError"]
        ELSE [products |-> sell_product(ps, id.value, q.value).products,
              outcome |-> "called"]

\* option 6: int() of the id and of the quantity, then restock_product
option_6_restock(ps, product_id, quantity) ==
    LET id == ParseInt(product_id)
        q  == ParseInt(quantity)
    IN  IF id.exc # "None" \/ q.exc # "None"
        THEN [products |-> ps, outcome |-> "ValueError"]
        ELSE [products |-> restock_product(ps, id.value, q.value).products,
              outcome |-> "called"]

\* an option 10 that takes whatever load_inventory returned
\* (used as a faulty variant of option_10_load)
option_10_load_always(ps, f, total, now) ==
    LET r == load_inventory(f, total, now)
    IN  [products |-> r.products, total_products |-> r.total_products,
         loaded |-> r.products]

\* an option 10 that sets the counter to the highest loaded id
\* (used as a faulty variant of option_10_load)
option_10_load_reset_counter(ps, f, total, now) ==
    LET r == load_inventory(f, total, now)
    IN  IF Len(r.products) > 0
        THEN [products |-> r.products,
              total_products |-> MaxOf(IdsOf(r.products)),
              loaded |-> r.products]
        ELSE [products |-> ps, total_products |-> r.total_products,
              loaded |-> r.products]

\* option 10: load_inventory(); its products replace the ones in memory only
\* when there is at least one; the counter is raised to the highest id
option_10_load(ps, f, total, now) ==
    LET r == load_inventory(f, total, now)
        max_id == MaxOf(IdsOf(r.products))
    IN  IF Len(r.products) > 0
        THEN [products |-> r.products,
              total_products |->
                 IF r.total_products >= max_id THEN r.total_products ELSE max_id,
              loaded |-> r.products]
        ELSE [products |-> ps, total_products |-> r.total_products,
              loaded |-> r.products]

\* the files a session can start with: none, an empty array, arrays whose
\* ids are unique integers (the highest id not last), one with an entry that
\* is skipped, and one that is no JSON
MenuFiles ==
    {NoFile,
     JsonArray(<<>>),
     PartialFile(<<>>),
     JsonArray(<<JsonObject(product_data(
                    Construct("Electronics", 3, 1, ValidDate1, Now1).value))>>),
     JsonArray(<<JsonObject(product_data(
                    Construct("Clothing", 2, 1, ValidDate1, Now1).value)),
                 JsonObject(product_data(
                    Construct("Grocery", 1, 1, ValidDate1, Now1).value))>>),
     JsonArray(<<DropKey(GoodElectronics, "brand"), GoodClothing>>)}

\* main: the inventory is what load_inventory() returns, the counter what it
\* left; "seen" collects every id that was in the inventory during the session
InitMenu ==
    /\ file \in MenuFiles
    /\ clock = Now1
    /\ LET r == load_inventory(file, 1, clock)
       IN  /\ products = r.products
           /\ total_products = r.total_products
           /\ last = [op |-> "main", before |-> <<>>, before_total |-> 1,
                      seen |-> IdsOf(r.products), before_seen |-> {}]

\* option 1
MenuAddProduct(sub_opt, price, quantity_in_stock, warranty_years, expiry_date) ==
    /\ Len(products) < MaxProducts
    /\ total_products < MaxTotal
    /\ \E r \in {add_product_menu(products, total_products, sub_opt, price,
                                 quantity_in_stock, warranty_years,
                                 expiry_date, clock)} :
           /\ products' = r.products
           /\ total_products' = r.total_products
           /\ last' = [op |-> "add_product_menu", sub_opt |-> sub_opt,
                       outcome |-> r.outcome, product_id |-> r.product_id,
                       before |-> products, before_total |-> total_products,
                       seen |-> last.seen \cup IdsOf(r.products),
                       before_seen |-> last.seen]
    /\ UNCHANGED <<file, clock>>

\* option 2
MenuRemoveProduct(product_id) ==
    /\ \E r \in {option_2_remove(products, product_id)} :
           /\ products' = r.products
           /\ last' = [op |-> "option_2_remove", product_id |-> product_id,
                       outcome |-> r.outcome,
                       before |-> products, before_total |-> total_products,
                       seen |-> last.seen, before_seen |-> last.seen]
    /\ UNCHANGED <<file, total_products, clock>>

\* option 5
MenuSellProduct(product_id, quantity) ==
    /\ \E r \in {option_5_sell(products, product_id, quantity)} :
           /\ \A i \in 1 .. Len(r.products) :
                 r.products[i].quantity_in_stock \in (0 - MaxStock) .. MaxStock
           /\ products' = r.products
           /\ last' = [op |-> "option_5_sell", product_id |-> product_id,
                       quantity |-> quantity, outcome |-> r.outcome,
                       before |-> products, before_total |-> total_products,
                       seen |-> last.seen, before_seen |-> last.seen]
    /\ UNCHANGED <<file, total_products, clock>>

\* option 6
MenuRestockProduct(product_id, quantity) ==
    /\ \E r \in {option_6_restock(products, product_id, quantity)} :
           /\ \A i \in 1 .. Len(r.products) :
                 r.products[i].quantity_in_stock \in (0 - MaxStock) .. MaxStock
           /\ products' = r.products
           /\ last' = [op |-> "option_6_restock", product_id |-> product_id,
                       quantity |-> quantity, outcome |-> r.outcome,
                       before |-> products, before_total |-> total_products,
                       seen |-> last.seen, before_seen |-> last.seen]
    /\ UNCHANGED <<file, total_products, clock>>

\* option 9
MenuSaveInventory(io) ==
    /\ \E r \in {save_inventory(products, file, io)} :
           /\ file' = r.file
           /\ last' = [op |-> "option_9_save", ret |-> r.ret,
                       before |-> products, before_total |-> total_products,
                       seen |-> last.seen, before_seen |-> last.seen]
    /\ UNCHANGED <<products, total_products, clock>>

\* option 10
MenuLoadInventory ==
    /\ \E r \in {option_10_load(products, file, total_products, clock)} :
           /\ products' = r.products
           /\ total_products' = r.total_products
           /\ last' = [op |-> "option_10_load", loaded |-> r.loaded,
                       before |-> products, before_total |-> total_products,
                       seen |-> last.seen \cup IdsOf(r.products),
                       before_seen |-> last.seen]
    /\ UNCHANGED <<file, clock>>

\* what the user types for an id and for a number
IdInputs == {Num(n) : n \in 1 .. MaxTotal} \cup {NotANumber}
QuantityInputs == {Num(n) : n \in (0 - MaxStock) .. MaxStock + 1} \cup {NotANumber}

\* a session of adding, removing, saving and loading
NextMenu ==
    \/ \E sub_opt \in {"1", "2", "3", "4"}, quantity_in_stock \in {Num(1), NotANumber},
          warranty_years \in {Num(2), NotANumber} :
          MenuAddProduct(sub_opt, Num(5), quantity_in_stock, warranty_years, ValidDate1)
    \/ \E product_id \in IdInputs : MenuRemoveProduct(product_id)
    \/ \E io \in IoOutcomes(products) : MenuSaveInventory(io)
    \/ MenuLoadInventory

SpecMenu == InitMenu /\ [][NextMenu]_vars

\* a session of adding, selling and restocking
NextMenuStock ==
    \/ \E sub_opt \in {"1", "2", "3"}, quantity_in_stock \in 0 .. MaxStock :
          MenuAddProduct(sub_opt, Num(5), Num(quantity_in_stock), Num(2), ValidDate1)
    \/ \E product_id \in IdInputs, quantity \in QuantityInputs :
          MenuSellProduct(product_id, quantity)
    \/ \E product_id \in IdInputs, quantity \in QuantityInputs :
          MenuRestockProduct(product_id, quantity)

\* such a session starts without a file
InitMenuStock == InitMenu /\ file = NoFile

SpecMenuStock == InitMenuStock /\ [][NextMenuStock]_vars

\* C13: options 5 and 6 turn down a zero or negative quantity, so such an
\* entry changes nothing, a sell never raises a stock, a restock never
\* lowers one, and no stock is negative.
C13_MenuRejectsNonPositive ==
    /\ \A i \in 1 .. Len(products) : products[i].quantity_in_stock >= 0
    /\ (last.op \in {"option_5_sell", "option_6_restock"}
          /\ last.quantity.kind = "int" /\ last.quantity.value <= 0)
          => products = last.before
    /\ last.op = "option_5_sell"
          => /\ Len(products) = Len(last.before)
             /\ \A i \in 1 .. Len(products) :
                   products[i].quantity_in_stock <= last.before[i].quantity_in_stock
    /\ last.op = "option_6_restock"
          => /\ Len(products) = Len(last.before)
             /\ \A i \in 1 .. Len(products) :
                   products[i].quantity_in_stock >= last.before[i].quantity_in_stock

\* C14: the counter total_products never decreases and is at least every id
\* in the inventory; a successful add_product_menu assigns total_products + 1,
\* greater than every id that is or ever was in the inventory, and advances
\* the counter by one; a rejected add changes neither inventory nor counter.
C14_CounterAboveIds ==
    /\ \A id \in IdsOf(products) : id <= total_products
    /\ total_products >= last.before_total
    /\ (last.op = "add_product_menu" /\ last.outcome = "added")
          => /\ last.product_id = last.before_total + 1
             /\ total_products = last.product_id
             /\ Len(products) = Len(last.before) + 1
             /\ products[Len(products)].product_id = last.product_id
             /\ \A id \in last.before_seen \cup IdsOf(last.before) :
                   last.product_id > id
    /\ (last.op = "add_product_menu" /\ last.outcome # "added")
          => products = last.before /\ total_products = last.before_total

\* C14 witness: an id was given after the product with an earlier id had been
\* removed and the inventory had been loaded from the file again.
C14_Witness ==
    /\ last.op = "add_product_menu"
    /\ last.outcome = "added"
    /\ last.before # <<>>
    /\ \E id \in last.before_seen :
          id \notin IdsOf(last.before) /\ id > MaxOf(IdsOf(last.before))

\* C15 as stated: after option 10 the inventory in memory is the sequence
\* load_inventory returned, the empty one included.
C15_LoadReplacesInventory ==
    last.op = "option_10_load" => products = last.loaded

\* C15: after option 10 the inventory in memory is the sequence
\* load_inventory returned when that holds a product, and is what it was
\* before when load_inventory returned none.
C15_LoadReplacesWhenNonEmpty ==
    last.op = "option_10_load"
       => /\ last.loaded # <<>> => products = last.loaded
          /\ last.loaded = <<>> => products = last.before

\* C15 witness: the file holds an empty array, the inventory held a product,
\* and holds it still after option 10.
C15_Witness ==
    /\ last.op = "option_10_load"
    /\ file = JsonArray(<<>>)
    /\ last.loaded = <<>>
    /\ last.before # <<>>
    /\ products = last.before

====
